---- MODULE Spec2Model ----
(***************************************************************************)
(* Contract extractor: one upload handled by the Streamlit page            *)
(* (streamlit_app.py) through ContractExtractor (processor.py).            *)
(*                                                                         *)
(* Python values are modelled as records [t, s, i]: t is the type tag,     *)
(* s the text of a str, i the number of an int, the truth value of a bool  *)
(* (0/1) or the amount of a float in hundredths.                           *)
(***************************************************************************)
EXTENDS Integers, Sequences, FiniteSets, TLC

\* ---------------------------------------------------------------- bounds

\* Longest few-shot manifest (number of entries) the model enumerates.
MaxEntries == 2
\* Most optional fields a model response supplies at once.
MaxSupplied == 1

\* ---------------------------------------------------------------- values

PyNone == [t |-> "null", s |-> "", i |-> 0]
PyStr(x) == [t |-> "str", s |-> x, i |-> 0]
PyInt(n) == [t |-> "int", s |-> "", i |-> n]
PyBool(b) == [t |-> "bool", s |-> "", i |-> IF b THEN 1 ELSE 0]
PyFloat(hundredths) == [t |-> "float", s |-> "", i |-> hundredths]

\* Python truthiness, as used by `x or y` and `x if x else y`.
Truthy(v) ==
    CASE v.t = "null" -> FALSE
      [] v.t = "str" -> v.s # ""
      [] OTHER -> v.i # 0

Digits == <<"0", "1", "2", "3", "4", "5", "6", "7", "8", "9">>

RECURSIVE NatToStr(_)
NatToStr(n) == IF n < 10 THEN Digits[n + 1] ELSE NatToStr(n \div 10) \o Digits[(n % 10) + 1]

\* str(n) for an int
IntToStr(n) == IF n < 0 THEN "-" \o NatToStr(0 - n) ELSE NatToStr(n)

\* f"{x:.2f}" for a non-negative amount held in hundredths
FixedTwo(h) == NatToStr(h \div 100) \o "." \o Digits[((h % 100) \div 10) + 1] \o Digits[(h % 10) + 1]

\* ---------------------------------------------------------------- schema (SoftwareContract)

RequiredFields == {"software_system_name", "vendor_name_dba", "vendor_name_legal"}

StrOptional == {"contract_start", "contract_end", "payment_terms", "sla_uptime_guarantee", "integration_clauses"}
IntOptional == {"contract_period", "cancellation_notice_initial", "cancellation_notice_ongoing", "payment_delay"}
BoolOptional == {"auto_renewal"}
FloatOptional == {"payment_amount_setup", "payment_amount_per_terms"}

OptionalFields == StrOptional \cup IntOptional \cup BoolOptional \cup FloatOptional

DefaultedFields == {"data_ownership", "license_count"}

Fields == RequiredFields \cup OptionalFields \cup DefaultedFields

\* The declared type of each field (Optional[T] fields also admit null).
FieldType(f) ==
    CASE f \in RequiredFields -> "str"
      [] f \in StrOptional -> "str"
      [] f \in IntOptional -> "int"
      [] f \in BoolOptional -> "bool"
      [] f \in FloatOptional -> "float"
      [] f = "data_ownership" -> "str"
      [] OTHER -> "int"

DefaultDataOwnership == "DEALER"
DefaultLicenseCount == -1

\* A schema whose license_count defaults to 0 instead of the unlimited mark.
MutDefaultZeroLicense(f) ==
    CASE f = "data_ownership" -> PyStr(DefaultDataOwnership)
      [] f = "license_count" -> PyInt(0)
      [] OTHER -> PyNone

\* Field(default=...) of each field; None for the Optional ones.
FieldDefault(f) ==
    CASE f = "data_ownership" -> PyStr(DefaultDataOwnership)
      [] f = "license_count" -> PyInt(DefaultLicenseCount)
      [] OTHER -> PyNone

\* A supplied value is accepted for field f: a value of the declared type, or
\* null for an Optional field.  (The responses enumerated below carry values of
\* the declared type, null, or text in an int field, none of which is coerced.)
Accepts(f, v) ==
    \/ v.t = FieldType(f)
    \/ v.t = "null" /\ f \in OptionalFields

\* The response (a mapping from the supplied keys to values) conforms to the schema.
Conforms(resp) ==
    /\ DOMAIN resp \subseteq Fields
    /\ RequiredFields \subseteq DOMAIN resp
    /\ \A f \in DOMAIN resp : Accepts(f, resp[f])

\* SoftwareContract(**resp): supplied values kept, defaults for the omitted.
Construct(resp) ==
    [f \in Fields |-> IF f \in DOMAIN resp THEN resp[f] ELSE FieldDefault(f)]

\* ---------------------------------------------------------------- display_contract_data

\* The keys of data_dict, in the order the dict literal lists them.
DisplayOrder ==
    << "software_system_name", "vendor_name_dba", "vendor_name_legal", "contract_start",
       "contract_end", "contract_period", "auto_renewal", "cancellation_notice_initial",
       "cancellation_notice_ongoing", "payment_terms", "payment_delay", "payment_amount_setup",
       "payment_amount_per_terms", "sla_uptime_guarantee", "integration_clauses",
       "data_ownership", "license_count" >>

Label(f) ==
    CASE f = "software_system_name" -> "Software/System Name"
      [] f = "vendor_name_dba" -> "Vendor Name (DOING BUSINESS AS)"
      [] f = "vendor_name_legal" -> "Vendor Name (LEGAL ENTITY)"
      [] f = "contract_start" -> "Contract Start"
      [] f = "contract_end" -> "Contract End"
      [] f = "contract_period" -> "Contract Period"
      [] f = "auto_renewal" -> "Auto-renewal"
      [] f = "cancellation_notice_initial" -> "Cancellation Notice (INITIAL TERM, DAYS)"
      [] f = "cancellation_notice_ongoing" -> "Cancellation Notice (ONGOING, DAYS)"
      [] f = "payment_terms" -> "Payment Terms"
      [] f = "payment_delay" -> "Payment Delay"
      [] f = "payment_amount_setup" -> "Payment amount, setup fee"
      [] f = "payment_amount_per_terms" -> "Payment amount per terms"
      [] f = "sla_uptime_guarantee" -> "SLA/Uptime Guarantee"
      [] f = "integration_clauses" -> "Integration Clauses"
      [] f = "data_ownership" -> "Data Ownership"
      [] OTHER -> "License Count"

\* A display that leaves the placeholder blank.
MutBlankPlaceholder == PyStr("")

\* The "NULL" placeholder of data_dict.
NullText == PyStr("NULL")

\* `v or "NULL"` and `v if v else "NULL"`: the value itself when truthy
OrNull(v) == IF Truthy(v) THEN v ELSE NullText

\* The value expression of one entry of data_dict.
RenderField(f, v) ==
    CASE f \in RequiredFields -> OrNull(v)
      [] f \in StrOptional -> OrNull(v)
      [] f = "contract_period" ->
            IF v.t # "null" THEN PyStr(IntToStr(v.i) \o " months") ELSE NullText
      [] f = "auto_renewal" ->
            IF v.t = "bool" /\ v.i = 1 THEN PyStr("TRUE")
            ELSE IF v.t = "bool" /\ v.i = 0 THEN PyStr("FALSE") ELSE NullText
      [] f \in {"cancellation_notice_initial", "cancellation_notice_ongoing"} ->
            IF v.t # "null" THEN PyStr(IntToStr(v.i)) ELSE NullText
      [] f = "payment_delay" -> OrNull(v)
      [] f \in FloatOptional ->
            IF v.t # "null" THEN PyStr("$" \o FixedTwo(v.i)) ELSE NullText
      [] f = "data_ownership" -> IF Truthy(v) THEN v ELSE PyStr("DEALER")
      [] OTHER -> IF v.i # -1 THEN PyStr(IntToStr(v.i)) ELSE PyStr("Unlimited")

\* data_dict: one (label, value) row per entry, in order.
DataDict(contract_data) ==
    [k \in 1..Len(DisplayOrder) |->
        [label |-> Label(DisplayOrder[k]),
         value |-> RenderField(DisplayOrder[k], contract_data[DisplayOrder[k]])]]

\* ---------------------------------------------------------------- request parts

\* One element of `contents`: a prompt text, a PDF part, or the JSON text of a
\* few-shot example's expected output (the set of its keys).
TextItem(x) == [kind |-> "text", text |-> x, data |-> "", keys |-> {}]
PdfPart(bytes) == [kind |-> "pdf", text |-> "application/pdf", data |-> bytes, keys |-> {}]
JsonDumps(output_keys) == [kind |-> "json", text |-> "", data |-> "", keys |-> output_keys]

system_prompt == TextItem("You are an AI assistant specialized in extracting specific information from software contracts.")
main_prompt == TextItem("Please extract the contract information from the attached PDF document according to the specified fields.")
ExampleInstruction == TextItem("Please extract the contract information from the following PDF")

LogRecord(level, msg, arg) == [level |-> level, msg |-> msg, arg |-> arg]

\* ---------------------------------------------------------------- file system

ManifestPath == "examples.json"
\* Paths that exist on disk (besides the staging file).
ExistingFiles == {ManifestPath, "a.pdf", "b.pdf", "locked.pdf"}
\* Existing files whose bytes cannot be read.
UnreadableFiles == {"locked.pdf"}
FileBytes(path) == "%PDF bytes of " \o path

\* ---------------------------------------------------------------- create_few_shot_examples

\* A manifest entry as json.load returns it.  expected_output is a dict (its
\* keys are kept) or JSON null.
Entry(is_object, has_pdf_path, pdf_path, has_expected_output, output_is_object, output_keys) ==
    [is_object |-> is_object, has_pdf_path |-> has_pdf_path, pdf_path |-> pdf_path,
     has_expected_output |-> has_expected_output, output_is_object |-> output_is_object,
     output_keys |-> output_keys]

\* example.get("expected_output", {}): keys of the dict, {} when the key is absent.
ExpectedOutput(example) == IF example.has_expected_output THEN example.output_keys ELSE {}

\* A guard that tests for a key the vehicle examples do not carry.
MutWrongGuardKey(example) == "vin" \in ExpectedOutput(example)

\* `"vehicle_vin" in example.get("expected_output", {})`
IsVehicleExample(example) == "vehicle_vin" \in ExpectedOutput(example)

\* A loader that never tests whether the example PDF exists.
MutNoExistsCheck(example) == FALSE

\* `not filepath.exists()` for Path(example["pdf_path"])
PdfMissing(example) == example.pdf_path \notin ExistingFiles

\* One iteration of `for example in examples`: skip, extend the list, or raise.
ProcessExample(example) ==
    IF ~example.is_object
        THEN [outcome |-> "raise", items |-> <<>>, log |-> <<>>]       \* no .get on a non-dict
    ELSE IF example.has_expected_output /\ ~example.output_is_object
        THEN [outcome |-> "raise", items |-> <<>>, log |-> <<>>]       \* `in` on None
    ELSE IF IsVehicleExample(example)
        THEN [outcome |-> "skip", items |-> <<>>,
              log |-> <<LogRecord("info", "Skipping vehicle title example", "")>>]
    ELSE IF ~example.has_pdf_path
        THEN [outcome |-> "raise", items |-> <<>>, log |-> <<>>]       \* KeyError
    ELSE IF PdfMissing(example)
        THEN [outcome |-> "skip", items |-> <<>>,
              log |-> <<LogRecord("warning", "Example PDF file not found", example.pdf_path)>>]
    ELSE IF example.pdf_path \notin ExistingFiles \/ example.pdf_path \in UnreadableFiles
        THEN [outcome |-> "raise", items |-> <<>>, log |-> <<>>]       \* read_bytes fails
    ELSE [outcome |-> "extend",
          items |-> <<ExampleInstruction, PdfPart(FileBytes(example.pdf_path)),
                      JsonDumps(ExpectedOutput(example))>>,
          log |-> <<>>]

LoadFailure == LogRecord("warning", "Could not load few-shot examples", "")

\* The try block's loop from entry k on; `acc` is few_shot_examples so far.  An
\* exception leaves the loop, is logged by the except clause, and the function
\* returns few_shot_examples as it stands.
RECURSIVE LoadExamples(_, _, _, _)
LoadExamples(examples, k, acc, log) ==
    IF k > Len(examples) THEN [examples |-> acc, log |-> log, caught |-> FALSE]
    ELSE LET step == ProcessExample(examples[k]) IN
         CASE step.outcome = "raise" ->
                [examples |-> acc, log |-> Append(log, LoadFailure), caught |-> TRUE]
           [] step.outcome = "skip" -> LoadExamples(examples, k + 1, acc, log \o step.log)
           [] OTHER -> LoadExamples(examples, k + 1, acc \o step.items, log)

\* create_few_shot_examples(): path is self.few_shot_examples_path, file what the
\* manifest path holds.
create_few_shot_examples(path, file) ==
    IF ~Truthy(path) \/ path.s \notin ExistingFiles
        THEN [examples |-> <<>>, log |-> <<>>, caught |-> FALSE]
    ELSE IF file.kind # "array"                                      \* json.load or iteration raises
        THEN [examples |-> <<>>, log |-> <<LoadFailure>>, caught |-> TRUE]
    ELSE LoadExamples(file.entries, 1, <<>>, <<>>)

\* ---------------------------------------------------------------- inputs

RECURSIVE SeqsUpTo(_, _)
\* All sequences over S of length at most n.
SeqsUpTo(S, n) ==
    IF n = 0 THEN {<<>>}
    ELSE LET shorter == SeqsUpTo(S, n - 1) IN
         shorter \cup {Append(q, x) : q \in {r \in shorter : Len(r) = n - 1}, x \in S}

\* Manifest entries: contract examples (a.pdf, b.pdf), vehicle-title examples,
\* an example of another schema without vehicle_vin, a missing PDF, an entry
\* without pdf_path, a non-object entry, an unreadable PDF, an entry without
\* expected_output and one whose expected_output is null.
EntryKinds ==
    { Entry(TRUE, TRUE, "a.pdf", TRUE, TRUE, RequiredFields),
      Entry(TRUE, TRUE, "b.pdf", TRUE, TRUE, RequiredFields \cup {"license_count"}),
      Entry(TRUE, TRUE, "a.pdf", TRUE, TRUE, {"vehicle_vin", "vehicle_make"}),
      Entry(TRUE, TRUE, "gone.pdf", TRUE, TRUE, {"vehicle_vin"}),
      Entry(TRUE, FALSE, "", TRUE, TRUE, {"vehicle_vin"}),
      Entry(TRUE, TRUE, "b.pdf", TRUE, TRUE, {"invoice_number", "vendor_name_dba"}),
      Entry(TRUE, TRUE, "gone.pdf", TRUE, TRUE, RequiredFields),
      Entry(TRUE, FALSE, "", TRUE, TRUE, RequiredFields),
      Entry(FALSE, FALSE, "", FALSE, FALSE, {}),
      Entry(TRUE, TRUE, "locked.pdf", TRUE, TRUE, RequiredFields),
      Entry(TRUE, TRUE, "a.pdf", FALSE, FALSE, {}),
      Entry(TRUE, TRUE, "a.pdf", TRUE, FALSE, {}) }

\* What the manifest path holds: text that is not JSON, a JSON scalar, or an array.
ManifestFiles ==
    { [kind |-> "invalid_json", entries |-> <<>>], [kind |-> "scalar", entries |-> <<>>] }
    \cup { [kind |-> "array", entries |-> es] : es \in SeqsUpTo(EntryKinds, MaxEntries) }

EmptyManifest == [kind |-> "array", entries |-> <<>>]

\* few_shot_examples_path as the page passes it: None, "", a path to no file, the manifest.
PathSettings == { PyNone, PyStr(""), PyStr("nowhere.json"), PyStr(ManifestPath) }

EmptyBytes == ""
UploadedFiles == { EmptyBytes, "%PDF-1.7 contract" }

NoFields == [f \in {} |-> PyNone]

\* Values a response may carry for a field: well-typed ones (falsy ones among
\* them), null, and for license_count a wrongly typed one.
SampleValues(f) ==
    CASE f \in RequiredFields -> { PyStr("Acme") }
      [] f = "data_ownership" -> { PyStr("DEALER"), PyStr("VENDOR"), PyNone }
      [] f = "license_count" -> { PyInt(-1), PyInt(25), PyStr("many") }
      [] FieldType(f) = "str" -> { PyStr(""), PyStr("net 30"), PyNone }
      [] FieldType(f) = "int" -> { PyInt(0), PyInt(30), PyNone }
      [] FieldType(f) = "bool" -> { PyBool(TRUE), PyBool(FALSE), PyNone }
      [] OTHER -> { PyFloat(0), PyFloat(125050), PyNone }

\* The required part of a response: all three names, or one of them missing.
RequiredParts ==
    { [f \in RequiredFields \ M |-> PyStr("Acme")] : M \in {{}} \cup {{g} : g \in RequiredFields} }

\* A field omitted or supplied with one of its sample values.
MaybeField(f) == { NoFields } \cup { f :> v : v \in SampleValues(f) }

RECURSIVE OptionalParts(_)
\* At most n optional fields supplied.
OptionalParts(n) ==
    IF n = 0 THEN { NoFields }
    ELSE LET fewer == OptionalParts(n - 1) IN
         fewer \cup UNION { { p @@ (f :> v) : p \in fewer, v \in SampleValues(f) } : f \in OptionalFields }

Responses ==
    { r @@ o @@ l @@ p : r \in RequiredParts, o \in MaybeField("data_ownership"),
                         l \in MaybeField("license_count"), p \in OptionalParts(MaxSupplied) }

FullResponse == [f \in RequiredFields |-> PyStr("Acme")]

\* What the model service does with the request: fail, answer text that is
\* not JSON, or answer a JSON object.
ProviderError == [kind |-> "error", resp |-> NoFields]
ProviderMalformed == [kind |-> "malformed", resp |-> NoFields]
ProviderJson(resp) == [kind |-> "json", resp |-> resp]

FewProviders == { ProviderError, ProviderMalformed, ProviderJson(FullResponse) }
AllProviders == { ProviderError, ProviderMalformed } \cup { ProviderJson(r) : r \in Responses }

\* ---------------------------------------------------------------- state

VARIABLES
    few_shot_examples_path,  \* ContractExtractor.few_shot_examples_path
    manifest,                \* what the manifest path holds on disk
    uploaded_file,           \* bytes of the upload
    provider,                \* what the model service will answer
    pc,                      \* position of the upload handler
    temp_file,               \* the staging file exists
    temp_bytes,              \* bytes in the staging file
    pdf_data,                \* bytes read back by extract_data_from_file
    few_shot_examples,       \* result of create_few_shot_examples
    contents,                \* the request sent to the model
    calls,                   \* number of generate_content calls made
    result,                  \* value returned by extract_data_from_pdf
    outcome,                 \* "pending", "returned" or "raised" (extract_data_from_pdf)
    log,                     \* records written to the logger
    page                     \* what the page shows

vars == << few_shot_examples_path, manifest, uploaded_file, provider, pc, temp_file, temp_bytes,
           pdf_data, few_shot_examples, contents, calls, result, outcome, log, page >>

env == << few_shot_examples_path, manifest, uploaded_file, provider >>

\* response.parsed when no record could be parsed, and a parsed record
NoneResult == [isNone |-> TRUE, fields |-> [f \in Fields |-> PyNone]]
Parsed(record) == [isNone |-> FALSE, fields |-> record]

EmptyPage == [kind |-> "empty", rows |-> <<>>]

\* An upload has arrived; the extractor is built from the secrets.  The
\* enumerated environments vary the manifest with a few provider answers, and
\* the provider answer with no manifest configured.
Init ==
    /\ \/ /\ few_shot_examples_path \in PathSettings
          /\ manifest \in (IF few_shot_examples_path = PyStr(ManifestPath)
                            THEN ManifestFiles ELSE {EmptyManifest})
          /\ provider \in FewProviders
       \/ /\ few_shot_examples_path = PyNone
          /\ manifest = EmptyManifest
          /\ provider \in AllProviders
    /\ uploaded_file \in UploadedFiles
    /\ pc = "upload"
    /\ temp_file = FALSE
    /\ temp_bytes = EmptyBytes
    /\ pdf_data = EmptyBytes
    /\ few_shot_examples = <<>>
    /\ contents = <<>>
    /\ calls = 0
    /\ result = NoneResult
    /\ outcome = "pending"
    /\ log = <<>>
    /\ page = EmptyPage

\* ---------------------------------------------------------------- extract_data_from_uploaded_file

\* tempfile.NamedTemporaryFile(delete=False, suffix=".pdf"): the file is created.
NamedTemporaryFile ==
    /\ pc = "upload"
    /\ temp_file' = TRUE
    /\ pc' = "write"
    /\ UNCHANGED << env, temp_bytes, pdf_data, few_shot_examples, contents, calls, result,
                    outcome, log, page >>

\* temp_file.write(uploaded_file.getvalue()) and the end of the with block.  The
\* write may fail (getvalue raises, the disk is full): the with block closes the
\* file, which delete=False keeps, and the exception leaves the function before
\* its try/finally is entered.
WriteUpload ==
    /\ pc = "write"
    /\ \/ /\ temp_bytes' = uploaded_file
          /\ pc' = "staged"
       \/ /\ temp_bytes' = temp_bytes
          /\ pc' = "except"
    /\ UNCHANGED << env, temp_file, pdf_data, few_shot_examples, contents, calls, result,
                    outcome, log, page >>

\* extract_data_from_file: open(pdf_file_path, "rb").read()
ReadStagedFile ==
    /\ pc = "staged"
    /\ pdf_data' = temp_bytes
    /\ pc' = "few_shot"
    /\ UNCHANGED << env, temp_file, temp_bytes, few_shot_examples, contents, calls, result,
                    outcome, log, page >>

\* extract_data_from_pdf, first statement of its try block.
CreateFewShotExamples ==
    /\ pc = "few_shot"
    /\ LET loaded == create_few_shot_examples(few_shot_examples_path, manifest) IN
         /\ few_shot_examples' = loaded.examples
         /\ log' = log \o loaded.log
    /\ pc' = "generate"
    /\ UNCHANGED << env, temp_file, temp_bytes, pdf_data, contents, calls, result, outcome, page >>

\* A request that puts the closing instruction before the target PDF.
MutPromptBeforePdf(examples, data) == <<system_prompt>> \o examples \o <<main_prompt, PdfPart(data)>>

\* The `contents` list of the generate_content call.
BuildContents(examples, data) == <<system_prompt>> \o examples \o <<PdfPart(data), main_prompt>>

ExtractionError == LogRecord("error", "Error extracting contract data from PDF", "")

\* An extractor that repeats a failed model call once before giving up.
MutRetryOnce ==
    /\ pc = "generate"
    /\ contents' = BuildContents(few_shot_examples, pdf_data)
    /\ \/ /\ provider.kind = "error"
          /\ calls' = calls + 2
          /\ outcome' = "raised"
          /\ log' = Append(log, ExtractionError)
          /\ UNCHANGED result
       \/ /\ provider.kind # "error"
          /\ calls' = calls + 1
          /\ outcome' = "returned"
          /\ result' = IF provider.kind = "json" /\ Conforms(provider.resp)
                        THEN Parsed(Construct(provider.resp)) ELSE NoneResult
          /\ UNCHANGED log
    /\ pc' = "finally"
    /\ UNCHANGED << env, temp_file, temp_bytes, pdf_data, few_shot_examples, page >>

\* generate_content, `result = response.parsed`, `return result`, and the except
\* clause (log, re-raise).  The call fails, or the service answers; the client
\* library parses the answer against response_schema into response.parsed,
\* which is None when the text is not JSON or does not validate (a library
\* that raises instead is the other outcome).
GenerateContent ==
    /\ pc = "generate"
    /\ contents' = BuildContents(few_shot_examples, pdf_data)
    /\ calls' = calls + 1
    /\ \/ /\ provider.kind = "error"
          /\ outcome' = "raised"
          /\ log' = Append(log, ExtractionError)
          /\ UNCHANGED result
       \/ /\ provider.kind = "json"
          /\ Conforms(provider.resp)
          /\ outcome' = "returned"
          /\ result' = Parsed(Construct(provider.resp))
          /\ UNCHANGED log
       \/ /\ provider.kind # "error"
          /\ ~(provider.kind = "json" /\ Conforms(provider.resp))
          /\ \/ /\ outcome' = "returned"
                /\ result' = NoneResult
                /\ UNCHANGED log
             \/ /\ outcome' = "raised"
                /\ log' = Append(log, ExtractionError)
                /\ UNCHANGED result
    /\ pc' = "finally"
    /\ UNCHANGED << env, temp_file, temp_bytes, pdf_data, few_shot_examples, page >>

\* finally: os.unlink(temp_file_path); then the return value or the exception
\* reaches the page.
UnlinkTempFile ==
    /\ pc = "finally"
    /\ temp_file' = FALSE
    /\ pc' = IF outcome = "returned" THEN "display" ELSE "except"
    /\ UNCHANGED << env, temp_bytes, pdf_data, few_shot_examples, contents, calls, result,
                    outcome, log, page >>

\* ---------------------------------------------------------------- the page

\* display_contract_data(contract_data) inside the page's try block: the table,
\* or the error of reading a field of None.
DisplayContractData ==
    /\ pc = "display"
    /\ page' = IF result.isNone THEN [kind |-> "error", rows |-> <<>>]
               ELSE [kind |-> "table", rows |-> DataDict(result.fields)]
    /\ pc' = "done"
    /\ UNCHANGED << env, temp_file, temp_bytes, pdf_data, few_shot_examples, contents, calls,
                    result, outcome, log >>

\* except Exception as e: st.error(...)
ShowError ==
    /\ pc = "except"
    /\ page' = [kind |-> "error", rows |-> <<>>]
    /\ pc' = "done"
    /\ UNCHANGED << env, temp_file, temp_bytes, pdf_data, few_shot_examples, contents, calls,
                    result, outcome, log >>

Next ==
    \/ NamedTemporaryFile
    \/ WriteUpload
    \/ ReadStagedFile
    \/ CreateFewShotExamples
    \/ GenerateContent
    \/ UnlinkTempFile
    \/ DisplayContractData
    \/ ShowError

Spec == Init /\ [][Next]_vars

\* ---------------------------------------------------------------- properties

\* extract_data_from_uploaded_file has exited (returned or raised to the page).
Exited == pc \in {"display", "except", "done"}

\* create_few_shot_examples has returned.
FewShotLoaded == pc = "generate" \/ calls > 0

\* The try block of create_few_shot_examples caught an exception.
LoadFailed == \E k \in DOMAIN log : log[k] = LoadFailure

\* C1: on every exit path of extract_data_from_uploaded_file (return, extraction
\* raising, a failed write of the upload to the staging file) the temporary
\* file no longer exists once the call has exited.
C1_TempFileGoneOnExit == Exited => ~temp_file

\* The model answered with a JSON object that has all required fields and validates.
ValidResponse == provider.kind = "json" /\ Conforms(provider.resp)

\* C2: for a valid response with all required fields, the returned record has
\* data_ownership "DEALER" by default exactly when the response omitted it and
\* license_count -1 by default exactly when it omitted that; a supplied value is
\* returned unchanged.
C2_DefaultsIffOmitted ==
    (calls > 0 /\ ValidResponse) =>
        /\ outcome = "returned"
        /\ ~result.isNone
        /\ result.fields["data_ownership"] =
              (IF "data_ownership" \in DOMAIN provider.resp
               THEN provider.resp["data_ownership"] ELSE PyStr("DEALER"))
        /\ result.fields["license_count"] =
              (IF "license_count" \in DOMAIN provider.resp
               THEN provider.resp["license_count"] ELSE PyInt(-1))

\* A response that omits data_ownership and supplies license_count 25 was returned.
C2_Witness ==
    /\ outcome = "returned"
    /\ ValidResponse
    /\ "data_ownership" \notin DOMAIN provider.resp
    /\ "license_count" \in DOMAIN provider.resp
    /\ result.fields["data_ownership"] = PyStr("DEALER")
    /\ result.fields["license_count"] = PyInt(25)

\* C3: called with zero-length PDF bytes, extract fails with an error whatever
\* the provider does; it never returns a record.
C3_EmptyPdfNeverReturns == (calls > 0 /\ pdf_data = EmptyBytes) => outcome # "returned"

\* C4: extract returns a schema-validated record or raises; when the answer is
\* malformed or non-conformant it never returns None or an unvalidated value.
C4_ReturnsRecordOrRaises == outcome = "returned" => ~result.isNone

\* C5: whenever reading, parsing or processing the manifest fails,
\* create_few_shot_examples returns the empty sequence, whatever entries
\* preceded the failing one.
C5_FailureYieldsEmpty == (FewShotLoaded /\ LoadFailed) => few_shot_examples = <<>>

\* The manifest is read: a path is configured, names the manifest and the file is an array.
ManifestRead == few_shot_examples_path = PyStr(ManifestPath) /\ manifest.kind = "array"

\* An entry whose expected_output is an object the loader can inspect.
WellFormed(e) == e.is_object /\ (e.has_expected_output => e.output_is_object)

\* The keys of the entry's expected_output.
OutputKeys(e) == IF WellFormed(e) /\ e.has_expected_output THEN e.output_keys ELSE {}

Warnings(records) == SelectSeq(records, LAMBDA r : r.level = "warning")

\* The manifest with the entries satisfying Drop(_) removed.
Without(Drop(_)) == [manifest EXCEPT !.entries = SelectSeq(manifest.entries, LAMBDA e : ~Drop(e))]

HasVehicleVin(e) == "vehicle_vin" \in OutputKeys(e)

MissingPdf(e) ==
    WellFormed(e) /\ ~HasVehicleVin(e) /\ e.has_pdf_path /\ e.pdf_path \notin ExistingFiles

\* The entry contributes a triple: a contract example with a readable PDF.
ValidEntry(e) ==
    /\ WellFormed(e) /\ ~HasVehicleVin(e) /\ e.has_pdf_path
    /\ e.pdf_path \in ExistingFiles \ UnreadableFiles

RECURSIVE TriplesOf(_)
\* The (instruction, PDF, expected output) triples of the entries, flattened in order.
TriplesOf(entries) ==
    IF entries = <<>> THEN <<>>
    ELSE << TextItem("Please extract the contract information from the following PDF"),
            PdfPart(FileBytes(Head(entries).pdf_path)),
            JsonDumps(OutputKeys(Head(entries))) >> \o TriplesOf(Tail(entries))

NotFound(path) == LogRecord("warning", "Example PDF file not found", path)

NoManifest == few_shot_examples_path \in { PyNone, PyStr(""), PyStr("nowhere.json") }

\* C8: with no manifest path configured, or the manifest file not existing,
\* create_few_shot_examples returns the empty sequence and the request holds
\* exactly the system prompt, the target PDF and the closing instruction, in
\* that order.
C8_NoManifestRequest ==
    (NoManifest /\ FewShotLoaded => few_shot_examples = <<>>)
    /\ (NoManifest /\ calls > 0 =>
          contents = << system_prompt, PdfPart(uploaded_file), main_prompt >>)

\* A request was sent although the configured manifest does not exist.
C8_Witness ==
    /\ few_shot_examples_path = PyStr("nowhere.json")
    /\ calls = 1
    /\ Len(contents) = 3

\* The row of the table for field f.
RowOf(f) == CHOOSE k \in DOMAIN page.rows : page.rows[k].label = Label(f)

\* C9: rendering a record shows a value for every field of the record: every
\* absent optional field as "NULL" and license_count -1 as "Unlimited".
C9_RenderAllFields ==
    page.kind = "table" =>
        /\ Len(page.rows) = Cardinality(Fields)
        /\ Cardinality({ Label(f) : f \in Fields }) = Cardinality(Fields)
        /\ \A f \in Fields : \E k \in DOMAIN page.rows : page.rows[k].label = Label(f)
        /\ \A f \in OptionalFields :
              result.fields[f] = PyNone => page.rows[RowOf(f)].value = PyStr("NULL")
        /\ result.fields["license_count"] = PyInt(-1) =>
              page.rows[RowOf("license_count")].value = PyStr("Unlimited")

\* A record with every optional field absent and unlimited licenses is shown.
C9_Witness ==
    /\ page.kind = "table"
    /\ \A f \in OptionalFields : result.fields[f] = PyNone
    /\ result.fields["license_count"] = PyInt(-1)

\* C10: one invocation of extract issues at most one call to the model; after
\* a failed call the error propagates at once and no second call is made.
C10_AtMostOneCall ==
    /\ calls <= 1
    /\ (provider.kind = "error" /\ calls > 0) =>
          /\ calls = 1
          /\ outcome = "raised"
          /\ pc \in {"finally", "except", "done"}

\* The model call failed and the page has shown the error.
C10_Witness == provider.kind = "error" /\ calls = 1 /\ outcome = "raised" /\ pc = "done"

\* C11: rendering keeps missing and present values apart: for every optional
\* field the table shows "NULL" only if the field is absent in the record; a
\* present value, integer 0 and the empty string included, is never shown as
\* "NULL".
C11_NullOnlyIfAbsent ==
    page.kind = "table" =>
        \A f \in OptionalFields :
            page.rows[RowOf(f)].value = PyStr("NULL") => result.fields[f] = PyNone

====
